---- MODULE Spec2Model ----
(***************************************************************************)
(* Model of the sensitivity run of src/src/App.tsx (component App,         *)
(* handler runSensitivity and the form controls around it).                *)
(*                                                                         *)
(* Numbers.  JavaScript numbers are modelled as exact fixed-point values:  *)
(* parameters in millionths (1.10 is 1100000), shift factors in hundredths *)
(* (0.8 is 80).  The parameter values explored are multiples of 10         *)
(* millionths, so base * factor is exact in millionths, and none of them   *)
(* lies on a rounding tie of toFixed(4), where the binary representation   *)
(* of the double would decide.                                             *)
(*                                                                         *)
(* Strings.  A template literal is modelled as the sequence of its parts   *)
(* when a claim asks what a message contains (errorMsg), and as a          *)
(* concatenated string otherwise (scenario labels).                        *)
(*                                                                         *)
(* Steps.  JavaScript runs each task to completion: the synchronous part   *)
(* of runSensitivity up to its first await is one step, and so is each     *)
(* continuation after an await (up to the next await or the return).       *)
(* React applies the setState calls of one such step together.             *)
(***************************************************************************)
EXTENDS Integers, Sequences, FiniteSets, TLC

VARIABLES
    \* React state of App
    loading, errorMsg,
    modelType, maturity, r_dom, r_for,
    gbmSpot, gbmSigma,
    ouSpot, ouKappa, ouTheta, ouSigma,
    shockParam, shiftPct,
    underlyingStats, pvStats,
    \* the invocation of runSensitivity: the render values its closure
    \* captured, its locals, and the await it is suspended at
    closure, baseSpot, baseVol, shiftFactors, scenarioLabels,
    allUnderlying, allPv, i, currentSpot, currentVol, pc,
    \* the network: requests awaiting their response, and the requests and
    \* accepted response bodies of the current invocation, in order
    inflight, sent, received,
    \* what the page showed when the current invocation was started
    prior,
    \* number of form edits so far (bounds the exploration)
    edits

formVars == <<modelType, maturity, r_dom, r_for, gbmSpot, gbmSigma,
              ouSpot, ouKappa, ouTheta, ouSigma, shockParam, shiftPct>>
pageVars == <<loading, errorMsg, underlyingStats, pvStats>>
localVars == <<closure, baseSpot, baseVol, shiftFactors, scenarioLabels,
               allUnderlying, allPv, i, currentSpot, currentVol, pc>>
netVars == <<inflight, sent, received>>
vars == <<formVars, pageVars, localVars, netVars, prior, edits>>

----------------------------------------------------------------------------
(* Bounds of the exploration *)

\* form edits explored from the defaults
MaxEdits == 2
\* points in the two arrays of a non-empty response body, together
MaxPoints == 2

(* Program constants *)

\* paths=200 and steps=200 of the query string
Paths == 200
Steps == 200
\* for (let i = 0; i < 3; i++)
NScenarios == 3

(* Values the form fields range over (millionths) *)
ModelTypes == {"gbm", "ou"}
ShockParams == {"spot", "vol"}
ShiftPcts == {10, 20, 50}
SpotValues == {0, 1100000, 1234560}
GbmSigmaValues == {0, 150000, 123460}
OuSigmaValues == {0, 120000, 123460}
MaturityValues == {1000000, 500000}
RDomValues == {30000, 25000}
RForValues == {10000, 0}
KappaValues == {3000000, 1500000}
ThetaValues == {1100000, 1200000}

\* useState<string | null>(null): null is the empty sequence of parts
Null == <<>>

----------------------------------------------------------------------------
(* ScenarioPlanner: shiftFactors and scenarioLabels *)

\* a plan whose Up factor repeats the Down factor
ShiftFactorsDownTwice(pct) == <<100 - pct, 100, 100 - pct>>

\* [1 - shiftPct / 100, 1, 1 + shiftPct / 100], in hundredths
ShiftFactors(pct) == <<100 - pct, 100, 100 + pct>>

ScenarioLabels(pct) ==
    << "Down -" \o ToString(pct) \o "%",
       "Base 0%",
       "Up +" \o ToString(pct) \o "%" >>

----------------------------------------------------------------------------
(* RequestBuilder *)

\* base * factor, base in millionths and factor in hundredths
Times(base, factor) == (base * factor) \div 100

\* Number.prototype.toFixed(4) of x >= 0: the nearest multiple of 0.0001
ToFixed4(x) == ((x + 50) \div 100) * 100

\* the values of the render that runSensitivity closes over
Render ==
    [ modelType |-> modelType, maturity |-> maturity, r_dom |-> r_dom,
      r_for |-> r_for, gbmSpot |-> gbmSpot, gbmSigma |-> gbmSigma,
      ouSpot |-> ouSpot, ouKappa |-> ouKappa, ouTheta |-> ouTheta,
      ouSigma |-> ouSigma, shockParam |-> shockParam, shiftPct |-> shiftPct ]

\* a base spot read from the GBM parameters whatever the model
BaseSpotGbm(c) == c.gbmSpot

BaseSpot(c) == IF c.modelType = "gbm" THEN c.gbmSpot ELSE c.ouSpot
BaseVol(c) == IF c.modelType = "gbm" THEN c.gbmSigma ELSE c.ouSigma

CurrentSpot(c, bSpot, factor) ==
    IF c.shockParam = "spot" THEN Times(bSpot, factor) ELSE bSpot
\* a volatility that is shifted whatever the shock target
CurrentVolAlways(c, bVol, factor) == Times(bVol, factor)

\* a volatility that is shifted when the shock target is the spot
CurrentVolSwapped(c, bVol, factor) ==
    IF c.shockParam = "spot" THEN Times(bVol, factor) ELSE bVol

CurrentVol(c, bVol, factor) ==
    IF c.shockParam = "vol" THEN Times(bVol, factor) ELSE bVol

\* a query string built from the form as it is when the request is issued
UrlLive(c, spot, vol) ==
    LET common == [ model |-> modelType, paths |-> Paths, steps |-> Steps,
                    maturity |-> maturity, r_dom |-> r_dom,
                    r_for |-> r_for, spot |-> ToFixed4(spot) ]
    IN  IF modelType = "gbm"
        THEN common @@ [ sigma_gbm |-> ToFixed4(vol) ]
        ELSE common @@ [ sigma_ou |-> ToFixed4(vol),
                         kappa |-> ouKappa, theta |-> ouTheta ]

\* the query string, as the record of its parameters
Url(c, spot, vol) ==
    LET common == [ model |-> c.modelType, paths |-> Paths, steps |-> Steps,
                    maturity |-> c.maturity, r_dom |-> c.r_dom,
                    r_for |-> c.r_for, spot |-> ToFixed4(spot) ]
    IN  IF c.modelType = "gbm"
        THEN common @@ [ sigma_gbm |-> ToFixed4(vol) ]
        ELSE common @@ [ sigma_ou |-> ToFixed4(vol),
                         kappa |-> c.ouKappa, theta |-> c.ouTheta ]

----------------------------------------------------------------------------
(* SimulationClient: what the service may answer *)

\* HTTP status codes of a response; res.ok is status in 200..299
Statuses == {200, 500}
Ok(status) == status >= 200 /\ status <= 299

\* a StatsPoint of a body, its fields given by their JSON type
Point(t) == [time |-> t, mean |-> "number", p5 |-> "number", p95 |-> "number"]
BadPoint(t) == [time |-> t, mean |-> "string", p5 |-> "number", p95 |-> "number"]
Series(n) == [k \in 1..n |-> Point(k)]

\* bodies with both arrays: MaxPoints points split between the two
\* arrays, and the body whose arrays are both empty
EmptyBody == [underlyingStats |-> <<>>, pvStats |-> <<>>]
OkBodies ==
    { [underlyingStats |-> Series(n), pvStats |-> Series(MaxPoints - n)] :
        n \in 0..MaxPoints } \cup {EmptyBody}
\* a body whose points carry a non-numeric field
NonNumericBody == [underlyingStats |-> <<BadPoint(1)>>, pvStats |-> <<>>]
\* bodies that lack one of the arrays
MissingUnderlying == [pvStats |-> Series(1)]
MissingPv == [underlyingStats |-> Series(1)]
JsonBodies == OkBodies \cup {NonNumericBody, MissingUnderlying, MissingPv}

\* the errors the awaits of runSensitivity can throw
TransportError == [isError |-> TRUE, message |-> <<"Failed to fetch">>]
StatusError(label, status) ==
    [isError |-> TRUE,
     message |-> <<"Scenario ", label, " failed: ", ToString(status)>>]
SyntaxError ==
    [isError |-> TRUE, message |-> <<"Unexpected token < in JSON at position 0">>]
TypeError ==
    [isError |-> TRUE,
     message |-> <<"Cannot read properties of undefined (reading 'map')">>]

----------------------------------------------------------------------------
(* ResultAggregator: tagging and concatenation *)

\* points.map(p => ({...p, scenario: label}))
Tag(points, label) ==
    [k \in DOMAIN points |-> [scenario |-> label] @@ points[k]]

\* a push that puts the new points in front
PushFront(all, tagged) == tagged \o all

\* all.push(...tagged)
Push(all, tagged) == all \o tagged

----------------------------------------------------------------------------
(* RunController *)

Init ==
    /\ loading = FALSE
    /\ errorMsg = Null
    /\ modelType = "gbm"
    /\ maturity = 1000000
    /\ r_dom = 30000
    /\ r_for = 10000
    /\ gbmSpot = 1100000
    /\ gbmSigma = 150000
    /\ ouSpot = 1100000
    /\ ouKappa = 3000000
    /\ ouTheta = 1100000
    /\ ouSigma = 120000
    /\ shockParam = "spot"
    /\ shiftPct = 20
    /\ underlyingStats = <<>>
    /\ pvStats = <<>>
    /\ closure = Render
    /\ baseSpot = 0
    /\ baseVol = 0
    /\ shiftFactors = <<>>
    /\ scenarioLabels = <<>>
    /\ allUnderlying = <<>>
    /\ allPv = <<>>
    /\ i = 0
    /\ currentSpot = 0
    /\ currentVol = 0
    /\ pc = "idle"
    /\ inflight = {}
    /\ sent = <<>>
    /\ received = <<>>
    /\ prior = [started |-> FALSE, result |-> FALSE, error |-> FALSE]
    /\ edits = 0

\* a button that is never disabled
NeverDisabled == FALSE

\* <button disabled={loading}>
Disabled == loading

\* a start that leaves the previous series in place
NotCleared(series) == series

\* setUnderlyingStats([]) and setPvStats([]) at the start of a run
Cleared(series) == <<>>

\* an iteration that also issues the request of the iteration after it,
\* without waiting for the response
FetchAhead(log, c, bSpot, bVol, factors, k) ==
    LET factor == factors[k + 1]
        url == Url(c, CurrentSpot(c, bSpot, factor), CurrentVol(c, bVol, factor))
        k2 == IF k + 2 <= Len(factors) THEN k + 2 ELSE k + 1
        url2 == Url(c, CurrentSpot(c, bSpot, factors[k2]),
                       CurrentVol(c, bVol, factors[k2]))
    IN  /\ currentSpot' = CurrentSpot(c, bSpot, factor)
        /\ currentVol' = CurrentVol(c, bVol, factor)
        /\ inflight' = inflight \cup {url, url2}
        /\ sent' = log \o <<url, url2>>
        /\ pc' = "fetch"

\* iteration k (0-based) of the loop up to its first await: the shifted
\* parameters, the url, and const res = await fetch(url); log is the
\* requests this invocation has issued before
Fetch(log, c, bSpot, bVol, factors, k) ==
    LET factor == factors[k + 1]
        url == Url(c, CurrentSpot(c, bSpot, factor), CurrentVol(c, bVol, factor))
    IN  /\ currentSpot' = CurrentSpot(c, bSpot, factor)
        /\ currentVol' = CurrentVol(c, bVol, factor)
        /\ inflight' = inflight \cup {url}
        /\ sent' = Append(log, url)
        /\ pc' = "fetch"

\* a collecting array that outlives the invocation
ReusedArray(old) == old

\* const allUnderlying = [], const allPv = []: each invocation collects
\* into arrays of its own, whatever the invocation before it collected
NewArray(old) == <<>>

\* runSensitivity up to its first await
RunSensitivity ==
    /\ loading' = TRUE
    /\ errorMsg' = Null
    /\ underlyingStats' = Cleared(underlyingStats)
    /\ pvStats' = Cleared(pvStats)
    /\ closure' = Render
    /\ baseSpot' = BaseSpot(Render)
    /\ baseVol' = BaseVol(Render)
    /\ shiftFactors' = ShiftFactors(shiftPct)
    /\ scenarioLabels' = ScenarioLabels(shiftPct)
    /\ allUnderlying' = NewArray(allUnderlying)
    /\ allPv' = NewArray(allPv)
    /\ i' = 0
    /\ Fetch(<<>>, Render, BaseSpot(Render), BaseVol(Render),
             ShiftFactors(shiftPct), 0)
    /\ received' = <<>>
    /\ prior' = [started |-> TRUE,
                 result |-> (underlyingStats # <<>> \/ pvStats # <<>>),
                 error |-> (errorMsg # Null)]
    /\ UNCHANGED <<formVars, edits>>

\* a click on the Run Sensitivity button; a disabled button fires no click
Click ==
    IF Disabled THEN UNCHANGED vars ELSE RunSensitivity

\* a catch that publishes what the loop has collected so far
CatchPartial(err) ==
    /\ errorMsg' = (IF err.isError THEN err.message
                    ELSE <<"Failed to run sensitivity">>)
    /\ underlyingStats' = allUnderlying
    /\ pvStats' = allPv
    /\ loading' = FALSE
    /\ pc' = "idle"
    /\ UNCHANGED <<closure, baseSpot, baseVol, shiftFactors, scenarioLabels,
                   allUnderlying, allPv, i, currentSpot, currentVol, sent,
                   received>>

\* a catch that issues the failed request once more instead of giving up
CatchRetry(err) ==
    /\ sent' = Append(sent, sent[Len(sent)])
    /\ pc' = "fetch"
    /\ UNCHANGED <<pageVars, closure, baseSpot, baseVol, shiftFactors,
                   scenarioLabels, allUnderlying, allPv, i, currentSpot,
                   currentVol, received>>

\* a catch without the finally block: loading is not reset
CatchNoFinally(err) ==
    /\ errorMsg' = (IF err.isError THEN err.message
                    ELSE <<"Failed to run sensitivity">>)
    /\ pc' = "idle"
    /\ UNCHANGED <<loading, underlyingStats, pvStats, closure, baseSpot,
                   baseVol, shiftFactors, scenarioLabels, allUnderlying, allPv,
                   i, currentSpot, currentVol, sent, received>>

\* catch (err) { setErrorMsg(...) } finally { setLoading(false) }
Catch(err) ==
    /\ errorMsg' = (IF err.isError THEN err.message
                    ELSE <<"Failed to run sensitivity">>)
    /\ loading' = FALSE
    /\ pc' = "idle"
    /\ UNCHANGED <<underlyingStats, pvStats, closure, baseSpot, baseVol,
                   shiftFactors, scenarioLabels, allUnderlying, allPv, i,
                   currentSpot, currentVol, sent, received>>

\* fetch rejects: no response
FetchReject ==
    /\ pc = "fetch"
    /\ inflight' = {}
    /\ Catch(TransportError)
    /\ UNCHANGED <<formVars, prior, edits>>

\* fetch resolves with a response of the given status
FetchResolve(status) ==
    /\ pc = "fetch"
    /\ inflight' = {}
    /\ IF ~Ok(status)
       THEN Catch(StatusError(scenarioLabels[i + 1], status))
       ELSE /\ pc' = "json"
            /\ UNCHANGED <<pageVars, closure, baseSpot, baseVol, shiftFactors,
                           scenarioLabels, allUnderlying, allPv, i,
                           currentSpot, currentVol, sent, received>>
    /\ UNCHANGED <<formVars, prior, edits>>

\* res.json() rejects: the body is not JSON
JsonReject ==
    /\ pc = "json"
    /\ Catch(SyntaxError)
    /\ UNCHANGED <<formVars, inflight, prior, edits>>

\* a publication that forgets setPvStats
PublishUnderlyingOnly(under, pv) ==
    /\ underlyingStats' = under
    /\ pvStats' = <<>>
    /\ loading' = FALSE
    /\ pc' = "idle"
    /\ UNCHANGED <<errorMsg, currentSpot, currentVol, inflight, sent>>

\* setUnderlyingStats(allUnderlying); setPvStats(allPv); finally
Publish(under, pv) ==
    /\ underlyingStats' = under
    /\ pvStats' = pv
    /\ loading' = FALSE
    /\ pc' = "idle"
    /\ UNCHANGED <<errorMsg, currentSpot, currentVol, inflight, sent>>

\* the rest of the loop body after res.json() resolved with data, then
\* the next iteration up to its await, or the code after the loop
JsonResolve(data) ==
    /\ pc = "json"
    /\ IF ~("underlyingStats" \in DOMAIN data /\ "pvStats" \in DOMAIN data)
       THEN /\ Catch(TypeError)
            /\ UNCHANGED inflight
       ELSE /\ allUnderlying' =
                 Push(allUnderlying, Tag(data.underlyingStats, scenarioLabels[i + 1]))
            /\ allPv' = Push(allPv, Tag(data.pvStats, scenarioLabels[i + 1]))
            /\ received' = Append(received, data)
            /\ i' = i + 1
            /\ IF i + 1 < NScenarios
               THEN /\ Fetch(sent, closure, baseSpot, baseVol, shiftFactors, i + 1)
                    /\ UNCHANGED pageVars
               ELSE Publish(allUnderlying', allPv')
            /\ UNCHANGED <<closure, baseSpot, baseVol, shiftFactors, scenarioLabels>>
    /\ UNCHANGED <<formVars, prior, edits>>

----------------------------------------------------------------------------
(* The form controls: each onChange handler sets one field *)

Edit ==
    /\ edits < MaxEdits
    /\ edits' = edits + 1
    /\ UNCHANGED <<pageVars, localVars, netVars, prior>>

SetModelType(v) ==
    /\ v # modelType
    /\ modelType' = v
    /\ Edit
    /\ UNCHANGED <<maturity, r_dom, r_for, gbmSpot, gbmSigma, ouSpot, ouKappa,
                   ouTheta, ouSigma, shockParam, shiftPct>>

SetShockParam(v) ==
    /\ v # shockParam
    /\ shockParam' = v
    /\ Edit
    /\ UNCHANGED <<modelType, maturity, r_dom, r_for, gbmSpot, gbmSigma, ouSpot,
                   ouKappa, ouTheta, ouSigma, shiftPct>>

SetShiftPct(v) ==
    /\ v # shiftPct
    /\ shiftPct' = v
    /\ Edit
    /\ UNCHANGED <<modelType, maturity, r_dom, r_for, gbmSpot, gbmSigma, ouSpot,
                   ouKappa, ouTheta, ouSigma, shockParam>>

SetMaturity(v) ==
    /\ v # maturity
    /\ maturity' = v
    /\ Edit
    /\ UNCHANGED <<modelType, r_dom, r_for, gbmSpot, gbmSigma, ouSpot, ouKappa,
                   ouTheta, ouSigma, shockParam, shiftPct>>

SetR_dom(v) ==
    /\ v # r_dom
    /\ r_dom' = v
    /\ Edit
    /\ UNCHANGED <<modelType, maturity, r_for, gbmSpot, gbmSigma, ouSpot, ouKappa,
                   ouTheta, ouSigma, shockParam, shiftPct>>

SetR_for(v) ==
    /\ v # r_for
    /\ r_for' = v
    /\ Edit
    /\ UNCHANGED <<modelType, maturity, r_dom, gbmSpot, gbmSigma, ouSpot, ouKappa,
                   ouTheta, ouSigma, shockParam, shiftPct>>

\* the GBM inputs are rendered only while modelType is gbm
SetGbmSpot(v) ==
    /\ modelType = "gbm"
    /\ v # gbmSpot
    /\ gbmSpot' = v
    /\ Edit
    /\ UNCHANGED <<modelType, maturity, r_dom, r_for, gbmSigma, ouSpot, ouKappa,
                   ouTheta, ouSigma, shockParam, shiftPct>>

SetGbmSigma(v) ==
    /\ modelType = "gbm"
    /\ v # gbmSigma
    /\ gbmSigma' = v
    /\ Edit
    /\ UNCHANGED <<modelType, maturity, r_dom, r_for, gbmSpot, ouSpot, ouKappa,
                   ouTheta, ouSigma, shockParam, shiftPct>>

\* the OU inputs are rendered only while modelType is ou
SetOuSpot(v) ==
    /\ modelType = "ou"
    /\ v # ouSpot
    /\ ouSpot' = v
    /\ Edit
    /\ UNCHANGED <<modelType, maturity, r_dom, r_for, gbmSpot, gbmSigma, ouKappa,
                   ouTheta, ouSigma, shockParam, shiftPct>>

SetOuKappa(v) ==
    /\ modelType = "ou"
    /\ v # ouKappa
    /\ ouKappa' = v
    /\ Edit
    /\ UNCHANGED <<modelType, maturity, r_dom, r_for, gbmSpot, gbmSigma, ouSpot,
                   ouTheta, ouSigma, shockParam, shiftPct>>

SetOuTheta(v) ==
    /\ modelType = "ou"
    /\ v # ouTheta
    /\ ouTheta' = v
    /\ Edit
    /\ UNCHANGED <<modelType, maturity, r_dom, r_for, gbmSpot, gbmSigma, ouSpot,
                   ouKappa, ouSigma, shockParam, shiftPct>>

SetOuSigma(v) ==
    /\ modelType = "ou"
    /\ v # ouSigma
    /\ ouSigma' = v
    /\ Edit
    /\ UNCHANGED <<modelType, maturity, r_dom, r_for, gbmSpot, gbmSigma, ouSpot,
                   ouKappa, ouTheta, shockParam, shiftPct>>

SetField ==
    \/ \E v \in ModelTypes : SetModelType(v)
    \/ \E v \in ShockParams : SetShockParam(v)
    \/ \E v \in ShiftPcts : SetShiftPct(v)
    \/ \E v \in MaturityValues : SetMaturity(v)
    \/ \E v \in RDomValues : SetR_dom(v)
    \/ \E v \in RForValues : SetR_for(v)
    \/ \E v \in SpotValues : SetGbmSpot(v)
    \/ \E v \in GbmSigmaValues : SetGbmSigma(v)
    \/ \E v \in SpotValues : SetOuSpot(v)
    \/ \E v \in KappaValues : SetOuKappa(v)
    \/ \E v \in ThetaValues : SetOuTheta(v)
    \/ \E v \in OuSigmaValues : SetOuSigma(v)

----------------------------------------------------------------------------
(* The page in a browser: clicks, edits and the service's answers *)

Next ==
    \/ Click
    \/ FetchReject
    \/ \E status \in Statuses : FetchResolve(status)
    \/ JsonReject
    \/ \E data \in JsonBodies : JsonResolve(data)
    \/ SetField

Spec == Init /\ [][Next]_vars

\* The same page over every form the controls can produce, with a service
\* that answers every request with status 200 and the empty body: the
\* requests of a run as a function of the form.
InitAnyForm ==
    /\ loading = FALSE
    /\ errorMsg = Null
    /\ modelType \in ModelTypes
    /\ maturity \in MaturityValues
    /\ r_dom \in RDomValues
    /\ r_for \in RForValues
    /\ gbmSpot \in SpotValues
    /\ gbmSigma \in GbmSigmaValues
    /\ ouSpot \in SpotValues
    /\ ouKappa \in KappaValues
    /\ ouTheta \in ThetaValues
    /\ ouSigma \in OuSigmaValues
    /\ shockParam \in ShockParams
    /\ shiftPct \in ShiftPcts
    /\ underlyingStats = <<>>
    /\ pvStats = <<>>
    /\ closure = Render
    /\ baseSpot = 0
    /\ baseVol = 0
    /\ shiftFactors = <<>>
    /\ scenarioLabels = <<>>
    /\ allUnderlying = <<>>
    /\ allPv = <<>>
    /\ i = 0
    /\ currentSpot = 0
    /\ currentVol = 0
    /\ pc = "idle"
    /\ inflight = {}
    /\ sent = <<>>
    /\ received = <<>>
    /\ prior = [started |-> FALSE, result |-> FALSE, error |-> FALSE]
    /\ edits = 0

NextAnyForm ==
    \/ ~prior.started /\ Click
    \/ FetchResolve(200)
    \/ JsonResolve(EmptyBody)

SpecAnyForm == InitAnyForm /\ [][NextAnyForm]_vars

----------------------------------------------------------------------------
(* States of the controller, read off the page *)

Running == loading
Failed == ~loading /\ errorMsg # Null
Succeeded == ~loading /\ errorMsg = Null /\ prior.started

\* number of points of the bodies rs in the array named f
RECURSIVE PointCount(_, _)
PointCount(rs, f) ==
    IF rs = <<>> THEN 0 ELSE Len(Head(rs)[f]) + PointCount(Tail(rs), f)

(* Runs under a service that settles every call: no form edits, and every
   pending await of fetch or res.json() eventually resolves or rejects *)

\* the settling of the pending await
Respond ==
    \/ FetchReject
    \/ \E status \in Statuses : FetchResolve(status)
    \/ JsonReject
    \/ \E data \in JsonBodies : JsonResolve(data)

NextLive ==
    \/ Click
    \/ Respond

SpecLive == Init /\ [][NextLive]_vars /\ WF_vars(Respond)

----------------------------------------------------------------------------
(* Claims *)

\* a step in which the call for the current scenario fails: no response,
\* a non-success status, a body that is not JSON, a body without an array
FailStep ==
    \/ FetchReject
    \/ \E status \in Statuses : ~Ok(status) /\ FetchResolve(status)
    \/ JsonReject
    \/ \E data \in {MissingUnderlying, MissingPv} : JsonResolve(data)

\* C1 (fail-fast): a step in which the call for scenario k fails ends the
\* run in Failed, with an error message set and both published series
\* empty, whatever the scenarios before k returned; the run has issued
\* exactly k requests, none is outstanding, and no further request is
\* issued while the controller stays Failed.
C1_FailFast ==
    [][ /\ FailStep =>
            /\ Failed'
            /\ pc' = "idle"
            /\ underlyingStats' = <<>> /\ pvStats' = <<>>
            /\ inflight' = {}
            /\ sent' = sent /\ Len(sent') = i' + 1 /\ Len(received') = i'
        /\ (Failed /\ Failed') => (sent' = sent /\ inflight' = {})
      ]_vars

\* C1 witness: the call for scenario 2 failed after scenario 1 had
\* returned points
C1_Witness ==
    /\ Failed
    /\ i = 1
    /\ allUnderlying # <<>>
    /\ allPv # <<>>
    /\ underlyingStats = <<>>

\* C2 (no concurrent runs): a click while a run is Running changes nothing
\* of the page, of the run's locals or of the network, and at most one
\* request is outstanding at any time.
C2_NoConcurrentRuns ==
    [][ /\ (Running /\ Click) => UNCHANGED <<pageVars, localVars, netVars>>
        /\ Cardinality(inflight') <= 1
        /\ Running' <=> pc' # "idle"
      ]_vars

\* C2 witness: a run is in flight past its first scenario, and the button
\* can be clicked
C2_Witness ==
    /\ Running
    /\ Len(received) = 1
    /\ pc = "fetch"
    /\ ENABLED Click

\* C3 (atomic publication): whenever a published series is not empty, the
\* run is over, all three scenarios were accepted, and the two published
\* series are the complete collected series of that run, holding the
\* points of all three bodies.
C3_Atomic ==
    (underlyingStats # <<>> \/ pvStats # <<>>) =>
        /\ ~Running
        /\ i = NScenarios
        /\ Len(received) = NScenarios
        /\ underlyingStats = allUnderlying
        /\ pvStats = allPv
        /\ Len(underlyingStats) = PointCount(received, "underlyingStats")
        /\ Len(pvStats) = PointCount(received, "pvStats")

\* C3 witness: a result with points in both series is published
C3_Witness ==
    /\ Succeeded
    /\ underlyingStats # <<>>
    /\ pvStats # <<>>

\* C4 (clear on start): while a run is Running the published series are
\* empty and no error message is shown, and they stay empty when the run
\* fails, also when the run before it had published a result.
C4_ClearOnStart ==
    /\ Running => (underlyingStats = <<>> /\ pvStats = <<>> /\ errorMsg = Null)
    /\ Failed => (underlyingStats = <<>> /\ pvStats = <<>>)
    /\ Running => sent # <<>>

\* C4 witness: a rerun failed after a run that had published a result
C4_Witness ==
    /\ Failed
    /\ prior.result
    /\ underlyingStats = <<>>
    /\ pvStats = <<>>

\* the plan of a magnitude, written out
ExpectedFactors(m) ==
    CASE m = 10 -> <<90, 100, 110>>
      [] m = 20 -> <<80, 100, 120>>
      [] m = 50 -> <<50, 100, 150>>
ExpectedLabels(m) ==
    CASE m = 10 -> <<"Down -10%", "Base 0%", "Up +10%">>
      [] m = 20 -> <<"Down -20%", "Base 0%", "Up +20%">>
      [] m = 50 -> <<"Down -50%", "Base 0%", "Up +50%">>

\* C5 (scenario plan): for every magnitude m, model and shock target, a
\* started run holds the factors 1 - m/100, 1, 1 + m/100 and the labels
\* "Down -m%", "Base 0%", "Up +m%" in that order, issues at most three
\* requests and, when it has ended, exactly three.
C5_Plan ==
    prior.started =>
        /\ shiftFactors = ExpectedFactors(closure.shiftPct)
        /\ scenarioLabels = ExpectedLabels(closure.shiftPct)
        /\ Len(shiftFactors) = NScenarios /\ Len(scenarioLabels) = NScenarios
        /\ Len(sent) <= NScenarios
        /\ ~Running => Len(sent) = NScenarios

\* C5 witness: a run with magnitude 50 on the OU model and the volatility
\* has issued its three requests
C5_Witness ==
    /\ prior.started
    /\ closure.shiftPct = 50
    /\ closure.modelType = "ou"
    /\ closure.shockParam = "vol"
    /\ Len(sent) = NScenarios

\* the volatility a request carries
VolOf(req) == IF req.model = "gbm" THEN req.sigma_gbm ELSE req.sigma_ou

\* v (millionths) is the 4-decimal value nearest to x100 / 100
Nearest4(v, x100) ==
    /\ v % 100 = 0
    /\ v * 100 - x100 <= 5000
    /\ x100 - v * 100 <= 5000

\* C6 as stated (single-target shock): every request of a run carries the
\* targeted scalar equal to base times the scenario's factor and the other
\* scalar equal to its base value.
C6_Exact ==
    \A k \in 1..Len(sent) :
        LET f == ExpectedFactors(closure.shiftPct)[k]
        IN  IF closure.shockParam = "spot"
            THEN sent[k].spot * 100 = baseSpot * f /\ VolOf(sent[k]) = baseVol
            ELSE sent[k].spot = baseSpot /\ VolOf(sent[k]) * 100 = baseVol * f

\* C6 amended: the shifted parameters are exact (the targeted one is base
\* times factor, the other one is base), and every request carries each of
\* the two rounded to 4 decimals.
C6_Rounded ==
    /\ \A k \in 1..Len(sent) :
        LET f == ExpectedFactors(closure.shiftPct)[k]
        IN  IF closure.shockParam = "spot"
            THEN /\ Nearest4(sent[k].spot, baseSpot * f)
                 /\ Nearest4(VolOf(sent[k]), baseVol * 100)
            ELSE /\ Nearest4(sent[k].spot, baseSpot * 100)
                 /\ Nearest4(VolOf(sent[k]), baseVol * f)
    /\ sent # <<>> =>
        LET f == ExpectedFactors(closure.shiftPct)[Len(sent)]
        IN  IF closure.shockParam = "spot"
            THEN currentSpot * 100 = baseSpot * f /\ currentVol = baseVol
            ELSE currentSpot = baseSpot /\ currentVol * 100 = baseVol * f

\* C6 witness: an OU run shocking the volatility of 0.12346 has issued its
\* Up request, which carries a rounded volatility and a rounded spot
C6_Witness ==
    /\ Len(sent) = NScenarios
    /\ closure.modelType = "ou"
    /\ closure.shockParam = "vol"
    /\ baseVol = 123460
    /\ baseSpot = 1234560
    /\ sent[3].sigma_ou # currentVol
    /\ sent[3].spot # baseSpot

\* the fields of the effective parameters of the latest request that differ
\* from the base parameters
Differing ==
    LET req == sent[Len(sent)]
    IN  {f \in {"spot"} : currentSpot # baseSpot}
        \cup {f \in {"vol"} : currentVol # baseVol}
        \cup {f \in {"maturity"} : req.maturity # closure.maturity}
        \cup {f \in {"r_dom"} : req.r_dom # closure.r_dom}
        \cup {f \in {"r_for"} : req.r_for # closure.r_for}
        \cup {f \in {"kappa"} : req.model = "ou" /\ req.kappa # closure.ouKappa}
        \cup {f \in {"theta"} : req.model = "ou" /\ req.theta # closure.ouTheta}

\* C7 as stated: for every scenario, Base included, exactly one field of the
\* effective parameters differs from the base.
C7_ExactlyOne ==
    sent # <<>> => Cardinality(Differing) = 1

\* C7 amended: for the Down and the Up scenario, when the targeted base
\* scalar is not zero, exactly the targeted field of the effective
\* parameters (before serialisation) differs from the base; for the Base
\* scenario, and when the targeted base scalar is zero, no field differs.
C7_OneOrNone ==
    sent # <<>> =>
        LET targeted == IF closure.shockParam = "spot" THEN baseSpot ELSE baseVol
        IN  Differing = IF Len(sent) = 2 \/ targeted = 0
                        THEN {}
                        ELSE {closure.shockParam}

\* C7 witness: the Base request of a run with non-zero parameters is out
C7_Witness ==
    /\ Len(sent) = 2
    /\ pc = "fetch"
    /\ baseSpot # 0 /\ baseVol # 0
    /\ Differing = {}

\* the query parameters every request carries
CommonParams == {"model", "paths", "steps", "maturity", "r_dom", "r_for", "spot"}

\* C8 (request shape): every request carries the common parameters, plus
\* sigma_gbm alone for gbm and sigma_ou, kappa, theta for ou; the shared
\* values are the form's, and spot and volatility are those of the active
\* model's own parameters, shifted for the scenario when targeted and
\* rounded to 4 decimals.
C8_RequestShape ==
    \A k \in 1..Len(sent) :
        LET req == sent[k]
            c == closure
            f == ExpectedFactors(c.shiftPct)[k]
            fSpot == IF c.shockParam = "spot" THEN f ELSE 100
            fVol == IF c.shockParam = "vol" THEN f ELSE 100
        IN  /\ req.model = c.modelType
            /\ req.paths = 200 /\ req.steps = 200
            /\ req.maturity = c.maturity
            /\ req.r_dom = c.r_dom /\ req.r_for = c.r_for
            /\ IF c.modelType = "gbm"
               THEN /\ DOMAIN req = CommonParams \cup {"sigma_gbm"}
                    /\ Nearest4(req.spot, c.gbmSpot * fSpot)
                    /\ Nearest4(req.sigma_gbm, c.gbmSigma * fVol)
               ELSE /\ DOMAIN req = CommonParams \cup {"sigma_ou", "kappa", "theta"}
                    /\ Nearest4(req.spot, c.ouSpot * fSpot)
                    /\ Nearest4(req.sigma_ou, c.ouSigma * fVol)
                    /\ req.kappa = c.ouKappa /\ req.theta = c.ouTheta

\* C8 witness: an OU run whose OU parameters all differ from the GBM ones
\* has issued its three requests
C8_Witness ==
    /\ Len(sent) = NScenarios
    /\ closure.modelType = "ou"
    /\ closure.ouSpot # closure.gbmSpot
    /\ closure.ouSigma # closure.gbmSigma
    /\ closure.ouSpot # 0 /\ closure.ouSigma # 0

\* the concatenation, in the order of rs, of the arrays named f of the
\* three bodies rs, every point tagged with the label of its body
ExpectedSeries(rs, f, labels) ==
    LET n1 == Len(rs[1][f])
        n2 == Len(rs[2][f])
        n3 == Len(rs[3][f])
    IN  [j \in 1..(n1 + n2 + n3) |->
            LET k == IF j <= n1 THEN 1 ELSE IF j <= n1 + n2 THEN 2 ELSE 3
                off == IF k = 1 THEN 0 ELSE IF k = 2 THEN n1 ELSE n1 + n2
                p == rs[k][f][j - off]
            IN  [time |-> p.time, mean |-> p.mean, p5 |-> p.p5, p95 |-> p.p95,
                 scenario |-> labels[k]]]

\* C9 (aggregation): after a successful run each published series is the
\* concatenation of the three bodies' arrays in the order Down, Base, Up,
\* the points of a body in their order, each tagged with its scenario's
\* label; its length is the sum of the three lengths.
C9_Aggregation ==
    Succeeded =>
        /\ Len(received) = NScenarios
        /\ underlyingStats =
             ExpectedSeries(received, "underlyingStats",
                            ExpectedLabels(closure.shiftPct))
        /\ pvStats =
             ExpectedSeries(received, "pvStats", ExpectedLabels(closure.shiftPct))

\* C9 witness: a successful run whose bodies held two, one and no
\* underlying points
C9_Witness ==
    /\ Succeeded
    /\ Len(received[1].underlyingStats) = 2
    /\ Len(received[2].underlyingStats) = 1
    /\ Len(received[3].underlyingStats) = 0
    /\ Len(underlyingStats) = 3
    /\ Len(pvStats) = 3

\* C10 as stated (error annotation): the error message of a failed run
\* names the label of the scenario whose call failed, whatever the failure.
C10_LabelInError ==
    Failed => \E j \in DOMAIN errorMsg : errorMsg[j] = scenarioLabels[i + 1]

\* every point of the array is of the StatsPoint shape: numeric time,
\* mean, p5 and p95
Numeric(points) ==
    \A k \in DOMAIN points :
        /\ points[k].time \in Nat
        /\ points[k].mean = "number"
        /\ points[k].p5 = "number"
        /\ points[k].p95 = "number"

\* C11 as stated (malformed response): a body that lacks an array or whose
\* points carry a non-numeric field is never accepted, and none of its
\* points is ever published.
C11_MalformedRejected ==
    /\ \A k \in DOMAIN received :
        /\ DOMAIN received[k] = {"underlyingStats", "pvStats"}
        /\ Numeric(received[k].underlyingStats)
        /\ Numeric(received[k].pvStats)
    /\ Numeric(underlyingStats)
    /\ Numeric(pvStats)

\* the scalar of a request that the run's shock targets
TargetedOf(req) == IF closure.shockParam = "spot" THEN req.spot ELSE VolOf(req)

\* C12 (strict sequencing): the k-th request of a run is the one of
\* scenario k in the order Down, Base, Up; request k+1 is issued only when
\* the body of response k has been accepted; at most one request is
\* outstanding, and it is the latest one issued.
C12_Sequencing ==
    /\ Cardinality(inflight) <= 1
    /\ Len(sent) <= NScenarios
    /\ Len(received) <= Len(sent)
    /\ Len(sent) <= Len(received) + 1
    /\ inflight # {} =>
        /\ pc = "fetch"
        /\ inflight = {sent[Len(sent)]}
        /\ Len(sent) = Len(received) + 1
    /\ \A k \in 1..Len(sent) :
        Nearest4(TargetedOf(sent[k]),
                 (IF closure.shockParam = "spot" THEN baseSpot ELSE baseVol)
                    * ExpectedFactors(closure.shiftPct)[k])

\* C12 witness: the Up request is outstanding after the Down and the Base
\* body were accepted, the three requests being different
C12_Witness ==
    /\ pc = "fetch"
    /\ Len(sent) = NScenarios
    /\ Len(received) = 2
    /\ inflight = {sent[3]}
    /\ sent[1] # sent[2] /\ sent[2] # sent[3] /\ sent[1] # sent[3]

\* C13 (no retry): a run has issued one request for each scenario it has
\* started and none twice: while it is Running and when the call for
\* scenario k has failed it has issued exactly k requests, k - 1 of them
\* answered by an accepted body; when it has succeeded, exactly 3.
C13_NoRetry ==
    /\ Running => (Len(sent) = i + 1 /\ Len(received) = i)
    /\ Failed => (Len(sent) = i + 1 /\ Len(received) = i /\ i < NScenarios)
    /\ Succeeded => (Len(sent) = NScenarios /\ Len(received) = NScenarios
                     /\ i = NScenarios)

\* C13 witness: the call for the Up scenario failed, after three requests
C13_Witness ==
    /\ Failed
    /\ i = 2
    /\ Len(sent) = 3
    /\ Len(received) = 2

\* req is the request of scenario k (1-based) of a run started from the
\* form values snap
FromSnapshot(snap, k, req) ==
    LET f == ExpectedFactors(snap.shiftPct)[k]
        fSpot == IF snap.shockParam = "spot" THEN f ELSE 100
        fVol == IF snap.shockParam = "vol" THEN f ELSE 100
    IN  /\ req.model = snap.modelType
        /\ req.maturity = snap.maturity
        /\ req.r_dom = snap.r_dom /\ req.r_for = snap.r_for
        /\ IF snap.modelType = "gbm"
           THEN /\ Nearest4(req.spot, snap.gbmSpot * fSpot)
                /\ Nearest4(req.sigma_gbm, snap.gbmSigma * fVol)
           ELSE /\ Nearest4(req.spot, snap.ouSpot * fSpot)
                /\ Nearest4(req.sigma_ou, snap.ouSigma * fVol)
                /\ req.kappa = snap.ouKappa /\ req.theta = snap.ouTheta

\* the scenario tags of the points of a series
Tags(series) == { series[k].scenario : k \in DOMAIN series }

\* C14 (parameter snapshot): a run takes its snapshot of the form when it
\* starts and keeps it while it is Running whatever is edited; every
\* request it issues, its labels and the tags of the points it publishes
\* are those of the snapshot, not of the form at the time of the step.
C14_Snapshot ==
    [][ /\ (~loading /\ loading') => closure' = Render
        /\ loading => closure' = closure
        /\ \A k \in 1..Len(sent') : FromSnapshot(closure', k, sent'[k])
        /\ loading' => scenarioLabels' = ExpectedLabels(closure'.shiftPct)
        /\ \A k \in 1..NScenarios :
              ExpectedLabels(closure'.shiftPct)[k] \in
                  Tags(underlyingStats') \cup Tags(pvStats')
              => FromSnapshot(closure', k, sent'[k])
        /\ Tags(underlyingStats') \cup Tags(pvStats') \subseteq
              { ExpectedLabels(closure'.shiftPct)[k] : k \in 1..NScenarios }
      ]_vars

\* C14 witness: the model and the shift size were both changed while the
\* run was Running, the request of the Down scenario is still in flight
C14_Witness ==
    /\ Running
    /\ pc = "fetch"
    /\ Len(sent) = 1
    /\ closure.shiftPct # shiftPct
    /\ closure.modelType # modelType

\* C15 (replace, not merge): received holds the bodies accepted since the
\* most recent start.  The collecting arrays hold the points of those
\* bodies and no others; a newer run that is Running shows nothing of the
\* run before it; a published series that is not empty is the collected
\* series of the most recently started run, point for point, tagged with
\* that run's labels only.
C15_Replace ==
    /\ Len(allUnderlying) = PointCount(received, "underlyingStats")
    /\ Len(allPv) = PointCount(received, "pvStats")
    /\ Running => (underlyingStats = <<>> /\ pvStats = <<>>)
    /\ (underlyingStats # <<>> \/ pvStats # <<>>) =>
        /\ Succeeded
        /\ underlyingStats = allUnderlying /\ pvStats = allPv
        /\ Tags(underlyingStats) \cup Tags(pvStats) \subseteq
              { ExpectedLabels(closure.shiftPct)[k] : k \in 1..NScenarios }
        /\ \A k \in 1..NScenarios :
              /\ Len(received[k].underlyingStats) =
                   Cardinality({ j \in DOMAIN underlyingStats :
                       underlyingStats[j].scenario =
                           ExpectedLabels(closure.shiftPct)[k] })
              /\ Len(received[k].pvStats) =
                   Cardinality({ j \in DOMAIN pvStats :
                       pvStats[j].scenario = ExpectedLabels(closure.shiftPct)[k] })

\* C15 witness: a run started over a published result, with another shift
\* size, has published its own result
C15_Witness ==
    /\ prior.result
    /\ Succeeded
    /\ underlyingStats # <<>>
    /\ pvStats # <<>>
    /\ closure.shiftPct # 20

\* C16 (run termination): when every pending call is eventually settled,
\* a run that is Running eventually is not: loading is false again, the
\* run has ended in Succeeded or in Failed, no call is pending, and the
\* button accepts a new start.
C16_Termination ==
    Running ~> (/\ ~loading
                /\ (Succeeded \/ Failed)
                /\ pc = "idle"
                /\ inflight = {}
                /\ ~Disabled)

\* C16 witness: a run that was started after a failed run has succeeded
C16_Witness ==
    /\ prior.started
    /\ prior.error
    /\ Succeeded
    /\ Len(received) = NScenarios

\* no run has been started yet
Idle == ~loading /\ errorMsg = Null /\ ~prior.started

\* C17 (error and result are mutually exclusive): an error message and a
\* published point never coexist; while a run is Running there is
\* neither; when no run is Running the page is in exactly one of Idle (no
\* error, nothing published, no request ever issued), Succeeded (no
\* error, the collected series of three accepted bodies published) and
\* Failed (an error, nothing published, fewer than three bodies accepted).
C17_Exclusive ==
    /\ ~(errorMsg # Null /\ (underlyingStats # <<>> \/ pvStats # <<>>))
    /\ Running => (errorMsg = Null /\ underlyingStats = <<>> /\ pvStats = <<>>)
    /\ ~Running =>
        /\ (IF Idle THEN 1 ELSE 0) + (IF Succeeded THEN 1 ELSE 0)
              + (IF Failed THEN 1 ELSE 0) = 1
        /\ Idle => (underlyingStats = <<>> /\ pvStats = <<>> /\ sent = <<>>)
        /\ Succeeded => (/\ underlyingStats = allUnderlying
                         /\ pvStats = allPv
                         /\ Len(received) = NScenarios)
        /\ Failed => (/\ underlyingStats = <<>> /\ pvStats = <<>>
                      /\ prior.started
                      /\ Len(received) < NScenarios)

\* C17 witness: a run started over a published result has failed after
\* it had collected points: the error is shown and nothing is published
C17_Witness ==
    /\ Failed
    /\ prior.result
    /\ allUnderlying # <<>>
    /\ underlyingStats = <<>>
    /\ pvStats = <<>>

====
